---------------------------- MODULE Spec2Model ----------------------------
(***************************************************************************)
(* Model of the amoCRM connector (src/amocrm_connector.py): the token      *)
(* expiry rule, the HTTP transport SimpleHTTPSession, and the connector's  *)
(* refresh-on-demand request helper with its two public operations.        *)
(*                                                                         *)
(* Python values are modelled as follows.  A dict is a function whose      *)
(* domain is its set of keys (the empty dict is <<>>); a list is a         *)
(* sequence; an Optional value is a sequence of length 0 (None) or 1.      *)
(* A formatted message f"...{a} {b}" is a record holding the format and    *)
(* the values substituted into it.  time() is the clock variable now.      *)
(***************************************************************************)
EXTENDS Integers, Sequences, FiniteSets, TLC

VARIABLES
    now,      \* the value time() returns
    config,   \* the connector's configuration fields
    token,    \* the connector's held AmoCRMToken
    pc,       \* per caller: position inside the running operation
    frame,    \* per caller: the operation invoked and its arguments
    resp,     \* per caller: the Response the call is currently holding
    calls,    \* per caller: the session calls made by the running operation
    result,   \* per caller: what the operation returned or raised
    obs,      \* per caller: what the running operation observed on its way
    lock      \* the mutex around the client: "absent", "free" or its holder

vars == <<now, config, token, pc, frame, resp, calls, result, obs, lock>>

----------------------------------------------------------------------------
(* Bounds and program constants *)

MaxTime == 3

ExpiryMargin == 30

DefaultExpiresIn == 900

RequestTimeout == 10

Callers == {"A", "B"}

\* The callers that run operations under the sequential specification.
SeqCallers == {"A"}

None == <<>>

Some(v) == <<v>>

EmptyDict == <<>>

EmptyList == <<>>

----------------------------------------------------------------------------
(* What the remote side can answer *)

Statuses == {200, 201, 204, 304, 401}

BodyEmpty == ""

BodyText == "Unauthorized"

BodyTokenFull ==
    "{\"access_token\":\"new_access\",\"refresh_token\":\"new_refresh\",\"expires_in\":1800}"

BodyTokenMin == "{\"access_token\":\"new_access\"}"

BodyTokenShort == "{\"access_token\":\"short_access\",\"expires_in\":20}"

BodyTokenNoAccess == "{\"refresh_token\":\"new_refresh\"}"

BodyLeads == "{\"_embedded\":{\"leads\":[{\"id\":1,\"name\":\"Lead #1\"}]}}"

BodyLeadsEmpty == "{\"_embedded\":{\"leads\":[]}}"

BodyEmbeddedEmpty == "{\"_embedded\":{}}"

BodyContacts ==
    "{\"_embedded\":{\"contacts\":[{\"id\":7,\"name\":\"Jane\"},{\"id\":8,\"name\":\"Joe\"}]}}"

BodyContactsEmpty == "{\"_embedded\":{\"contacts\":[]}}"

RefreshBodies ==
    {BodyEmpty, BodyText, BodyTokenFull, BodyTokenMin, BodyTokenShort, BodyTokenNoAccess}

ResourceBodies ==
    {BodyEmpty, BodyText, BodyLeads, BodyLeadsEmpty, BodyEmbeddedEmpty,
     BodyContacts, BodyContactsEmpty}

\* What urlopen can do with one request: fail below HTTP, or deliver a
\* status and a body.
WireOutcomes(bodies) ==
    {[kind |-> "urlerror"]} \cup
    {[kind |-> "http", status |-> s, body |-> b] : s \in Statuses, b \in bodies}

----------------------------------------------------------------------------
(* json.loads on the bodies above *)

IsJSON(text) == text \notin {BodyEmpty, BodyText}

Loads(text) ==
    CASE text = BodyTokenFull ->
           [access_token |-> "new_access", refresh_token |-> "new_refresh",
            expires_in |-> 1800]
      [] text = BodyTokenMin -> [access_token |-> "new_access"]
      [] text = BodyTokenShort -> [access_token |-> "short_access", expires_in |-> 20]
      [] text = BodyTokenNoAccess -> [refresh_token |-> "new_refresh"]
      [] text = BodyLeads ->
           [_embedded |-> [leads |-> <<[id |-> 1, name |-> "Lead #1"]>>]]
      [] text = BodyLeadsEmpty -> [_embedded |-> [leads |-> EmptyList]]
      [] text = BodyEmbeddedEmpty -> [_embedded |-> EmptyDict]
      [] text = BodyContacts ->
           [_embedded |-> [contacts |-> <<[id |-> 7, name |-> "Jane"],
                                          [id |-> 8, name |-> "Joe"]>>]]
      [] text = BodyContactsEmpty -> [_embedded |-> [contacts |-> EmptyList]]

\* dict.get(key, default)
Get(d, key, default) == IF key \in DOMAIN d THEN d[key] ELSE default

----------------------------------------------------------------------------
(* Errors *)

AmoCRMError(message) == [class |-> "AmoCRMError", message |-> message]

KeyError(key) == [class |-> "KeyError", message |-> [fmt |-> key]]

JSONDecodeError(text) ==
    [class |-> "JSONDecodeError", message |-> [fmt |-> "{text}", text |-> text]]

Raise(exc) == [kind |-> "raise", exc |-> exc]

Return(value) == [kind |-> "return", value |-> value]

----------------------------------------------------------------------------
(* AmoCRMToken *)

AmoCRMToken(access, refresh, expires) ==
    [access_token |-> access, refresh_token |-> refresh, expires_at |-> expires]

\* The expiry test with the boundary instant counted as still valid.
is_expired_strict(tok, time) == time > tok.expires_at - ExpiryMargin

is_expired(tok, time) == time >= tok.expires_at - ExpiryMargin

----------------------------------------------------------------------------
(* Response *)

Response(status_code, payload, text) ==
    [status_code |-> status_code, _payload |-> payload, text |-> text]

\* A dict or list is truthy when it is not empty.
Truthy(v) == v # <<>>

Response_json(r) ==
    IF r._payload # None /\ Truthy(r._payload[1]) THEN r._payload[1] ELSE EmptyDict

----------------------------------------------------------------------------
(* SimpleHTTPSession *)

\* urlopen returns for a 2xx status and raises HTTPError for any other one.
UrlopenReturns(status) == status >= 200 /\ status < 300

\* request(): the outcome of the call when urlopen does w.  The arguments
\* only shape what is sent; the outcome is decided by w.
SimpleHTTPSession_request(method, url, headers, json, params, timeout, w) ==
    IF w.kind = "urlerror"
    THEN Raise(AmoCRMError([fmt |-> "Network error: {error}", error |-> "URLError"]))
    ELSE IF UrlopenReturns(w.status)
         THEN IF w.body = BodyEmpty
              THEN Return(Response(w.status, Some(EmptyDict), w.body))
              ELSE IF IsJSON(w.body)
                   THEN Return(Response(w.status, Some(Loads(w.body)), w.body))
                   ELSE Raise(JSONDecodeError(w.body))
         ELSE Return(Response(w.status, None, w.body))

SimpleHTTPSession_post(url, json, timeout, w) ==
    SimpleHTTPSession_request("POST", url,
                              ("Content-Type" :> "application/json"),
                              Some(json), None, timeout, w)

----------------------------------------------------------------------------
(* AmoCRMConnector: the pure parts of its methods *)

Connector(base_domain, client_id, client_secret, redirect_uri) ==
    [base_url |-> [domain |-> base_domain, path |-> "/api/v4"],
     token_url |-> [domain |-> base_domain, path |-> "/oauth2/access_token"],
     client_id |-> client_id,
     client_secret |-> client_secret,
     redirect_uri |-> redirect_uri]

\* The grant request refresh_access_token posts.
GrantRequest(cfg, tok) ==
    [client_id |-> cfg.client_id,
     client_secret |-> cfg.client_secret,
     grant_type |-> "refresh_token",
     refresh_token |-> tok.refresh_token,
     redirect_uri |-> cfg.redirect_uri]

\* The refresh that accepts every 2xx status.
RefreshOutcome_accepts_2xx(r, tok, t) ==
    IF r.status_code < 200 \/ r.status_code >= 300
    THEN Raise(AmoCRMError([fmt |-> "Failed to refresh token: {status_code} {text}",
                            status_code |-> r.status_code, text |-> r.text]))
    ELSE LET payload == Response_json(r) IN
         IF "access_token" \notin DOMAIN payload
         THEN Raise(KeyError("access_token"))
         ELSE Return(AmoCRMToken(payload["access_token"],
                                 Get(payload, "refresh_token", tok.refresh_token),
                                 t + Get(payload, "expires_in", DefaultExpiresIn)))

\* The refresh that extends the held expiry instead of starting from time().
RefreshOutcome_expiry_from_held(r, tok, t) ==
    IF r.status_code # 200
    THEN Raise(AmoCRMError([fmt |-> "Failed to refresh token: {status_code} {text}",
                            status_code |-> r.status_code, text |-> r.text]))
    ELSE LET payload == Response_json(r) IN
         IF "access_token" \notin DOMAIN payload
         THEN Raise(KeyError("access_token"))
         ELSE Return(AmoCRMToken(payload["access_token"],
                                 Get(payload, "refresh_token", tok.refresh_token),
                                 tok.expires_at + Get(payload, "expires_in", DefaultExpiresIn)))

\* The refresh with the held refresh token kept whatever the payload says.
RefreshOutcome_keeps_refresh_token(r, tok, t) ==
    IF r.status_code # 200
    THEN Raise(AmoCRMError([fmt |-> "Failed to refresh token: {status_code} {text}",
                            status_code |-> r.status_code, text |-> r.text]))
    ELSE LET payload == Response_json(r) IN
         IF "access_token" \notin DOMAIN payload
         THEN Raise(KeyError("access_token"))
         ELSE Return(AmoCRMToken(payload["access_token"],
                                 tok.refresh_token,
                                 t + Get(payload, "expires_in", DefaultExpiresIn)))

\* refresh_access_token after the POST answered r: the token it builds from
\* the held token tok at time t, or the error it raises.
RefreshOutcome(r, tok, t) ==
    IF r.status_code # 200
    THEN Raise(AmoCRMError([fmt |-> "Failed to refresh token: {status_code} {text}",
                            status_code |-> r.status_code, text |-> r.text]))
    ELSE LET payload == Response_json(r) IN
         IF "access_token" \notin DOMAIN payload
         THEN Raise(KeyError("access_token"))
         ELSE Return(AmoCRMToken(payload["access_token"],
                                 Get(payload, "refresh_token", tok.refresh_token),
                                 t + Get(payload, "expires_in", DefaultExpiresIn)))

\* The headers with the two fixed entries set only where the caller has none.
RequestHeaders_caller_wins(caller_headers, tok) ==
    [k \in DOMAIN caller_headers \cup {"Authorization", "Content-Type"} |->
        IF k \in DOMAIN caller_headers THEN caller_headers[k]
        ELSE IF k = "Authorization"
             THEN [scheme |-> "Bearer", credentials |-> tok.access_token]
             ELSE "application/json"]

\* The headers _request sends: the caller's dict with the two fixed entries
\* assigned into it.
RequestHeaders(caller_headers, tok) ==
    [k \in DOMAIN caller_headers \cup {"Authorization", "Content-Type"} |->
        IF k = "Authorization" THEN [scheme |-> "Bearer", credentials |-> tok.access_token]
        ELSE IF k = "Content-Type" THEN "application/json"
        ELSE caller_headers[k]]

\* _request without the status >= 400 test.
RequestOutcome_ignores_status(r) ==
    IF r.status_code = 204
    THEN [kind |-> "return", value |-> EmptyDict, json_calls |-> 0]
    ELSE [kind |-> "return", value |-> Response_json(r), json_calls |-> 1]

\* _request without the 204 test.
RequestOutcome_json_on_204(r) ==
    IF r.status_code >= 400
    THEN [kind |-> "raise",
          exc |-> AmoCRMError([fmt |-> "amoCRM API error: {status_code} {text}",
                               status_code |-> r.status_code, text |-> r.text]),
          json_calls |-> 0]
    ELSE [kind |-> "return", value |-> Response_json(r), json_calls |-> 1]

\* _request after the resource call answered r: what it returns or raises,
\* and how many times it called r.json().
RequestOutcome(r) ==
    IF r.status_code >= 400
    THEN [kind |-> "raise",
          exc |-> AmoCRMError([fmt |-> "amoCRM API error: {status_code} {text}",
                               status_code |-> r.status_code, text |-> r.text]),
          json_calls |-> 0]
    ELSE IF r.status_code = 204
         THEN [kind |-> "return", value |-> EmptyDict, json_calls |-> 0]
         ELSE [kind |-> "return", value |-> Response_json(r), json_calls |-> 1]

\* get_leads with the two keys read by subscript.
LeadsOutcome_requires_keys(data) ==
    IF "_embedded" \notin DOMAIN data
    THEN Raise(KeyError("_embedded"))
    ELSE IF "leads" \notin DOMAIN data["_embedded"]
         THEN Raise(KeyError("leads"))
         ELSE Return(data["_embedded"]["leads"])

\* get_leads once _request returned data.
LeadsOutcome(data) ==
    Return(Get(Get(data, "_embedded", EmptyDict), "leads", EmptyList))

\* create_contact returning the last created contact.
ContactOutcome_last(data) ==
    LET contacts == Get(Get(data, "_embedded", EmptyDict), "contacts", EmptyList) IN
    IF ~Truthy(contacts)
    THEN Raise(AmoCRMError([fmt |-> "Contact creation returned empty payload"]))
    ELSE Return(contacts[Len(contacts)])

\* create_contact once _request returned data.
ContactOutcome(data) ==
    LET contacts == Get(Get(data, "_embedded", EmptyDict), "contacts", EmptyList) IN
    IF ~Truthy(contacts)
    THEN Raise(AmoCRMError([fmt |-> "Contact creation returned empty payload"]))
    ELSE Return(contacts[1])

----------------------------------------------------------------------------
(* State *)

IdleFrame == [op |-> "none"]

NoResult == [kind |-> "none"]

\* What a call has observed so far; every field starts out unset.
IdleObs ==
    [entry_token |-> None, expired |-> None, checked_at |-> None,
     checked_token |-> None, pre_refresh_token |-> None, refresh_resp |-> None,
     refreshed_at |-> None, wire |-> None, data |-> None, json_calls |-> 0,
     entry_headers |-> None, prev |-> None]

\* The expiry timestamps the connector is constructed with: the token is
\* valid for two ticks, or not yet near expiry within the run.
InitialExpiries == {ExpiryMargin + 2, ExpiryMargin + 3600}

Init ==
    /\ now = 0
    /\ config = Connector("example", "client", "secret", "https://example.com/callback")
    /\ \E e \in InitialExpiries : token = AmoCRMToken("old_token", "refresh_token", e)
    /\ pc = [c \in Callers |-> "idle"]
    /\ frame = [c \in Callers |-> IdleFrame]
    /\ resp = [c \in Callers |-> None]
    /\ calls = [c \in Callers |-> <<>>]
    /\ result = [c \in Callers |-> NoResult]
    /\ obs = [c \in Callers |-> IdleObs]
    /\ lock = "absent"

----------------------------------------------------------------------------
(* Actions *)

\* Time passes.
Tick ==
    /\ now < MaxTime
    /\ now' = now + 1
    /\ UNCHANGED <<lock, config, token, pc, frame, resp, calls, result, obs>>

\* The state of a call that has just been entered with frame fr.
Entered(c, fr) ==
    /\ frame' = [frame EXCEPT ![c] = fr]
    /\ obs' = [obs EXCEPT ![c] = [IdleObs EXCEPT !.entry_token = Some(token),
                                                 !.entry_headers = fr.headers,
                                                 !.prev = obs[c].prev]]
    /\ pc' = [pc EXCEPT ![c] = "check"]

\* The (limit, page) pairs callers pass: the defaults and the tests' pair.
LeadsArgs == {[limit |-> 50, page |-> 1], [limit |-> 10, page |-> 2]}

ContactNames == {"Jane"}

\* get_leads up to its call of _request.
get_leads(c) ==
    /\ pc[c] = "idle"
    /\ \E a \in LeadsArgs :
         Entered(c, [op |-> "get_leads", args |-> a, method |-> "GET",
                     path |-> "/leads", headers |-> None,
                     kwargs |-> [params |-> a]])
    /\ UNCHANGED <<lock, now, config, token, resp, calls, result>>

\* create_contact up to its call of _request.
create_contact(c) ==
    /\ pc[c] = "idle"
    /\ \E name \in ContactNames :
         Entered(c, [op |-> "create_contact", args |-> [name |-> name],
                     method |-> "POST", path |-> "/contacts", headers |-> None,
                     kwargs |-> [json |-> <<[name |-> name]>>]])
    /\ UNCHANGED <<lock, now, config, token, resp, calls, result>>

\* The header dicts a caller of _request passes: one free key, and one that
\* also has entries under the two keys _request sets.
CallerHeaders ==
    { ("X-Trace" :> "t1"),
      ("Authorization" :> [scheme |-> "Basic", credentials |-> "abc"]) @@
      ("Content-Type" :> "text/plain") @@ ("X-Trace" :> "t1") }

\* _request called with a headers argument; frame[c].headers is the dict
\* object the caller passed and still holds.
Connector_request(c) ==
    /\ pc[c] = "idle"
    /\ \E h \in CallerHeaders :
         Entered(c, [op |-> "_request", args |-> [headers |-> h], method |-> "GET",
                     path |-> "/leads", headers |-> Some(h), kwargs |-> EmptyDict])
    /\ UNCHANGED <<lock, now, config, token, resp, calls, result>>

\* A call that starts over once when its first session call fails.
Finish_retries(c, outcome) ==
    IF outcome.kind = "raise" /\ Len(calls[c]) < 2
    THEN /\ pc' = [pc EXCEPT ![c] = "check"]
         /\ UNCHANGED result
    ELSE /\ result' = [result EXCEPT ![c] = outcome]
         /\ pc' = [pc EXCEPT ![c] = "done"]

\* A call ends by raising exc or returning a value.
Finish(c, outcome) ==
    /\ result' = [result EXCEPT ![c] = outcome]
    /\ pc' = [pc EXCEPT ![c] = "done"]

\* The expiry test followed by a refresh whatever it answered.
CheckExpiry_refreshes_always(c) ==
    /\ pc[c] = "check"
    /\ LET e == is_expired(token, now) IN
         /\ obs' = [obs EXCEPT ![c].expired = Some(e), ![c].checked_at = Some(now),
                               ![c].checked_token = Some(token)]
         /\ pc' = [pc EXCEPT ![c] = "refresh"]
    /\ UNCHANGED <<lock, now, config, token, frame, resp, calls, result>>

\* _request: the expiry test.
CheckExpiry(c) ==
    /\ pc[c] = "check"
    /\ LET e == is_expired(token, now) IN
         /\ obs' = [obs EXCEPT ![c].expired = Some(e), ![c].checked_at = Some(now),
                               ![c].checked_token = Some(token)]
         /\ pc' = [pc EXCEPT ![c] = IF e THEN "refresh" ELSE "send"]
    /\ UNCHANGED <<lock, now, config, token, frame, resp, calls, result>>

\* refresh_access_token: the POST to the token endpoint, answered by one of
\* outcomes.
RefreshPostWith(c, outcomes) ==
    /\ pc[c] = "refresh"
    /\ \E w \in outcomes :
         LET call == [fn |-> "post", url |-> config.token_url,
                      json |-> GrantRequest(config, token),
                      timeout |-> RequestTimeout]
             r == SimpleHTTPSession_post(call.url, call.json, call.timeout, w)
         IN  /\ calls' = [calls EXCEPT ![c] = Append(@, call)]
             /\ IF r.kind = "raise"
                THEN /\ Finish(c, r)
                     /\ UNCHANGED resp
                ELSE /\ resp' = [resp EXCEPT ![c] = Some(r.value)]
                     /\ pc' = [pc EXCEPT ![c] = "refreshed"]
                     /\ UNCHANGED result
             /\ obs' = [obs EXCEPT ![c].wire = Some(w)]
    /\ UNCHANGED <<lock, now, config, token, frame>>

\* refresh_access_token: the POST to the token endpoint.
RefreshPost(c) ==
    /\ pc[c] = "refresh"
    /\ RefreshPostWith(c, WireOutcomes(RefreshBodies))

\* The refresh that restarts the held token's expiry before it tests the
\* response, so that a rejected refresh leaves a changed token behind.
RefreshApply_touches_token(c) ==
    /\ pc[c] = "refreshed"
    /\ LET r == resp[c][1]
           out == RefreshOutcome(r, token, now)
       IN  /\ obs' = [obs EXCEPT ![c].refresh_resp = Some(r),
                                 ![c].pre_refresh_token = Some(token),
                                 ![c].refreshed_at =
                                     IF out.kind = "return" THEN Some(now) ELSE None]
           /\ IF out.kind = "raise"
              THEN /\ Finish(c, out)
                   /\ token' = [token EXCEPT !.expires_at = now + DefaultExpiresIn]
              ELSE /\ token' = out.value
                   /\ pc' = [pc EXCEPT ![c] = "send"]
                   /\ UNCHANGED result
    /\ resp' = [resp EXCEPT ![c] = None]
    /\ UNCHANGED <<lock, now, config, frame, calls>>

\* refresh_access_token: the status test and the replacement of the token.
RefreshApply(c) ==
    /\ pc[c] = "refreshed"
    /\ LET r == resp[c][1]
           out == RefreshOutcome(r, token, now)
       IN  /\ obs' = [obs EXCEPT ![c].refresh_resp = Some(r),
                                 ![c].pre_refresh_token = Some(token),
                                 ![c].refreshed_at =
                                     IF out.kind = "return" THEN Some(now) ELSE None]
           /\ IF out.kind = "raise"
              THEN /\ Finish(c, out)
                   /\ UNCHANGED token
              ELSE /\ token' = out.value
                   /\ pc' = [pc EXCEPT ![c] = "send"]
                   /\ UNCHANGED result
    /\ resp' = [resp EXCEPT ![c] = None]
    /\ UNCHANGED <<lock, now, config, frame, calls>>

\* kwargs.pop("headers", {}): the caller's dict, or a new empty one.
PoppedHeaders(fr) == IF fr.headers # None THEN fr.headers[1] ELSE EmptyDict

\* The resource call with the headers built from the token read at the
\* expiry test, before any refresh.
SendRequest_stale_token(c) ==
    /\ pc[c] = "send"
    /\ \E w \in WireOutcomes(ResourceBodies) :
         LET call == [fn |-> "request", method |-> frame[c].method,
                      url |-> [base |-> config.base_url, path |-> frame[c].path],
                      headers |-> RequestHeaders(PoppedHeaders(frame[c]),
                                                obs[c].checked_token[1]),
                      timeout |-> RequestTimeout,
                      kwargs |-> frame[c].kwargs]
             r == SimpleHTTPSession_request(
                      call.method, call.url, call.headers,
                      IF "json" \in DOMAIN call.kwargs THEN Some(call.kwargs.json) ELSE None,
                      IF "params" \in DOMAIN call.kwargs THEN Some(call.kwargs.params) ELSE None,
                      call.timeout, w)
         IN  /\ calls' = [calls EXCEPT ![c] = Append(@, call)]
             /\ IF r.kind = "raise"
                THEN /\ Finish(c, r)
                     /\ UNCHANGED resp
                ELSE /\ resp' = [resp EXCEPT ![c] = Some(r.value)]
                     /\ pc' = [pc EXCEPT ![c] = "received"]
                     /\ UNCHANGED result
             /\ obs' = [obs EXCEPT ![c].wire = Some(w)]
             /\ frame' = IF frame[c].headers # None
                         THEN [frame EXCEPT ![c].headers = Some(call.headers)]
                         ELSE frame
    /\ UNCHANGED <<lock, now, config, token>>

\* _request: the headers and the resource call, answered by one of outcomes.
SendRequestWith(c, outcomes) ==
    /\ pc[c] = "send"
    /\ \E w \in outcomes :
         LET call == [fn |-> "request", method |-> frame[c].method,
                      url |-> [base |-> config.base_url, path |-> frame[c].path],
                      headers |-> RequestHeaders(PoppedHeaders(frame[c]), token),
                      timeout |-> RequestTimeout,
                      kwargs |-> frame[c].kwargs]
             r == SimpleHTTPSession_request(
                      call.method, call.url, call.headers,
                      IF "json" \in DOMAIN call.kwargs THEN Some(call.kwargs.json) ELSE None,
                      IF "params" \in DOMAIN call.kwargs THEN Some(call.kwargs.params) ELSE None,
                      call.timeout, w)
         IN  /\ calls' = [calls EXCEPT ![c] = Append(@, call)]
             /\ IF r.kind = "raise"
                THEN /\ Finish(c, r)
                     /\ UNCHANGED resp
                ELSE /\ resp' = [resp EXCEPT ![c] = Some(r.value)]
                     /\ pc' = [pc EXCEPT ![c] = "received"]
                     /\ UNCHANGED result
             /\ obs' = [obs EXCEPT ![c].wire = Some(w)]
             /\ frame' = IF frame[c].headers # None
                         THEN [frame EXCEPT ![c].headers = Some(call.headers)]
                         ELSE frame
    /\ UNCHANGED <<lock, now, config, token>>

\* _request: the headers and the resource call.
SendRequest(c) ==
    /\ pc[c] = "send"
    /\ SendRequestWith(c, WireOutcomes(ResourceBodies))

\* The handling of the resource response that puts the pre-refresh token
\* back when the operation fails after a refresh.
HandleResponse_rolls_back(c) ==
    /\ pc[c] = "received"
    /\ LET out == RequestOutcome(resp[c][1])
           outcome == IF out.kind = "raise" THEN Raise(out.exc)
                      ELSE IF frame[c].op = "get_leads" THEN LeadsOutcome(out.value)
                      ELSE IF frame[c].op = "create_contact"
                           THEN ContactOutcome(out.value)
                           ELSE Return(out.value)
       IN  /\ obs' = [obs EXCEPT ![c].json_calls = out.json_calls,
                                 ![c].data = IF out.kind = "return"
                                             THEN Some(out.value) ELSE None]
           /\ Finish(c, outcome)
           /\ token' = IF outcome.kind = "raise" /\ obs[c].pre_refresh_token # None
                       THEN obs[c].pre_refresh_token[1] ELSE token
    /\ UNCHANGED <<lock, now, config, frame, resp, calls>>

\* _request: the status tests on the resource response, and what the
\* operation makes of the data returned to it.
HandleResponse(c) ==
    /\ pc[c] = "received"
    /\ LET out == RequestOutcome(resp[c][1]) IN
         /\ obs' = [obs EXCEPT ![c].json_calls = out.json_calls,
                               ![c].data = IF out.kind = "return"
                                           THEN Some(out.value) ELSE None]
         /\ IF out.kind = "raise"
            THEN Finish(c, Raise(out.exc))
            ELSE IF frame[c].op = "get_leads"
                 THEN Finish(c, LeadsOutcome(out.value))
                 ELSE IF frame[c].op = "create_contact"
                      THEN Finish(c, ContactOutcome(out.value))
                      ELSE Finish(c, Return(out.value))
    /\ UNCHANGED <<lock, now, config, token, frame, resp, calls>>

\* What the caller keeps of the call that has just ended: whether it
\* refreshed ("done"), tried to and failed ("failed") or did not try
\* ("none"), whether it raised, and the token it left behind.
Ending(c) ==
    [refresh |-> IF obs[c].refreshed_at # None THEN "done"
                 ELSE IF \E i \in 1..Len(calls[c]) : calls[c][i].fn = "post"
                      THEN "failed" ELSE "none",
     raised |-> result[c].kind = "raise",
     token |-> token]

\* The caller takes the outcome; the call's frame is gone.
Leave(c) ==
    /\ pc[c] = "done"
    /\ pc' = [pc EXCEPT ![c] = "idle"]
    /\ frame' = [frame EXCEPT ![c] = IdleFrame]
    /\ resp' = [resp EXCEPT ![c] = None]
    /\ calls' = [calls EXCEPT ![c] = <<>>]
    /\ result' = [result EXCEPT ![c] = NoResult]
    /\ obs' = [obs EXCEPT ![c] = [IdleObs EXCEPT !.prev = Some(Ending(c))]]
    /\ UNCHANGED <<lock, now, config, token>>

Next ==
    \/ Tick
    \/ \E c \in SeqCallers :
         \/ get_leads(c)
         \/ create_contact(c)
         \/ Connector_request(c)
         \/ CheckExpiry(c)
         \/ RefreshPost(c)
         \/ RefreshApply(c)
         \/ SendRequest(c)
         \/ HandleResponse(c)
         \/ Leave(c)

Spec == Init /\ [][Next]_vars

----------------------------------------------------------------------------
(* Two callers on one connector *)

\* The connector is shared by two threads while its token is expired.  The
\* source has no lock (lock = "absent"); the other clients are the ones
\* wrapped in an external mutex, taken before an operation is invoked and
\* given back when it has returned or raised.
InitShared ==
    /\ now = 0
    /\ config = Connector("example", "client", "secret", "https://example.com/callback")
    /\ token = AmoCRMToken("old_token", "refresh_token", ExpiryMargin)
    /\ pc = [c \in Callers |-> "idle"]
    /\ frame = [c \in Callers |-> IdleFrame]
    /\ resp = [c \in Callers |-> None]
    /\ calls = [c \in Callers |-> <<>>]
    /\ result = [c \in Callers |-> NoResult]
    /\ obs = [c \in Callers |-> IdleObs]
    /\ lock \in {"absent", "free"}

\* What the token endpoint answers the two callers: a network failure, a
\* grant (long or short), a 200 without access_token, or a rejection.
SharedRefreshAnswers ==
    {w \in WireOutcomes(RefreshBodies) :
        \/ w.kind = "urlerror"
        \/ w.status = 200 /\ w.body \in {BodyTokenFull, BodyTokenShort, BodyTokenNoAccess}
        \/ w.status = 401 /\ w.body = BodyText}

\* What the leads endpoint answers them: a network failure, leads, or a
\* rejection.
SharedResourceAnswers ==
    {w \in WireOutcomes(ResourceBodies) :
        \/ w.kind = "urlerror"
        \/ w.status = 200 /\ w.body = BodyLeads
        \/ w.status = 401 /\ w.body = BodyText}

\* A caller takes the mutex before it invokes an operation.
Acquire(c) ==
    /\ lock = "free"
    /\ pc[c] = "idle"
    /\ lock' = c
    /\ UNCHANGED <<now, config, token, pc, frame, resp, calls, result, obs>>

\* A caller invokes get_leads: at once on the bare connector, holding the
\* mutex on a guarded one.
Invoke(c) ==
    /\ lock \in {"absent", c}
    /\ get_leads(c)

\* One caller's refresh POST.
SharedRefreshPost(c) ==
    /\ pc[c] = "refresh"
    /\ RefreshPostWith(c, SharedRefreshAnswers)

\* One caller's resource request.
SharedSendRequest(c) ==
    /\ pc[c] = "send"
    /\ SendRequestWith(c, SharedResourceAnswers)

\* The caller gives the mutex back once its operation has ended.
Release(c) ==
    /\ lock = c
    /\ pc[c] = "done"
    /\ lock' = "free"
    /\ UNCHANGED <<now, config, token, pc, frame, resp, calls, result, obs>>

NextShared ==
    \E c \in Callers :
        \/ Acquire(c)
        \/ Invoke(c)
        \/ CheckExpiry(c)
        \/ SharedRefreshPost(c)
        \/ RefreshApply(c)
        \/ SharedSendRequest(c)
        \/ HandleResponse(c)
        \/ Release(c)

SpecShared == InitShared /\ [][NextShared]_vars

----------------------------------------------------------------------------
(* Vocabulary of the properties *)

\* The session calls of kind fn that caller c's running operation has made.
CallsOf(c, fn) == {i \in 1..Len(calls[c]) : calls[c][i].fn = fn}

Posts(c) == Cardinality(CallsOf(c, "post"))

Requests(c) == Cardinality(CallsOf(c, "request"))

\* The operation of caller c has ended and its caller has not yet left.
Ended(c) == pc[c] = "done"

\* The running operation of c found the token expired / not expired.
FoundExpired(c) == obs[c].expired = Some(TRUE)

FoundValid(c) == obs[c].expired = Some(FALSE)

\* The token endpoint answered c's refresh POST with status 200.
RefreshAnswered200(c) ==
    /\ obs[c].refresh_resp # None
    /\ obs[c].refresh_resp[1].status_code = 200

\* The payload of the refresh response c received.
RefreshPayload(c) == Response_json(obs[c].refresh_resp[1])

----------------------------------------------------------------------------
(* C3 *)

\* C3: for every token and every time at which the expiry test is made, the
\* test answers true exactly when now >= expires_at - 30; at the instant
\* now = expires_at - 30 the token counts as expired.
C3_ExpiryRule ==
    \A c \in Callers :
        obs[c].expired # None =>
            LET t == obs[c].checked_at[1]
                e == obs[c].checked_token[1].expires_at
            IN  /\ (t >= e - 30) => obs[c].expired = Some(TRUE)
                /\ (t < e - 30) => obs[c].expired = Some(FALSE)
                /\ (t = e - 30) => obs[c].expired = Some(TRUE)

\* The expiry test was made at exactly expires_at - 30 and answered true.
C3_Witness ==
    \E c \in Callers :
        /\ obs[c].expired = Some(TRUE)
        /\ obs[c].checked_at[1] = obs[c].checked_token[1].expires_at - 30

----------------------------------------------------------------------------
(* C1 *)

\* C1 as stated: whenever an operation found the token expired and the
\* token endpoint answered 200, then by the end of the operation exactly one
\* refresh POST and exactly one resource request were issued, in that order,
\* and the held token carries the response's access token, refresh token
\* and the time of the refresh plus its expires_in.
C1_AsStated ==
    \A c \in Callers :
        (Ended(c) /\ FoundExpired(c) /\ RefreshAnswered200(c)) =>
            /\ Len(calls[c]) = 2
            /\ calls[c][1].fn = "post"
            /\ calls[c][2].fn = "request"
            /\ DOMAIN RefreshPayload(c) = {"access_token", "refresh_token", "expires_in"}
            /\ token.access_token = RefreshPayload(c).access_token
            /\ token.refresh_token = RefreshPayload(c).refresh_token
            /\ token.expires_at = obs[c].refreshed_at[1] + RefreshPayload(c).expires_in

\* C1 (amended): the same, for a 200 refresh response whose payload carries
\* access_token, refresh_token and expires_in.
C1_RefreshThenRequest ==
    \A c \in Callers :
        ( /\ Ended(c)
          /\ FoundExpired(c)
          /\ RefreshAnswered200(c)
          /\ DOMAIN RefreshPayload(c) = {"access_token", "refresh_token", "expires_in"} ) =>
            /\ Len(calls[c]) = 2
            /\ calls[c][1].fn = "post"
            /\ calls[c][1].url = config.token_url
            /\ calls[c][2].fn = "request"
            /\ obs[c].refreshed_at # None
            /\ token.access_token = RefreshPayload(c).access_token
            /\ token.refresh_token = RefreshPayload(c).refresh_token
            /\ token.expires_at = obs[c].refreshed_at[1] + RefreshPayload(c).expires_in

\* An operation that found the token expired has ended after a refresh
\* answered 200 with all three fields, at a later instant than the refresh.
C1_Witness ==
    \E c \in Callers :
        /\ Ended(c)
        /\ FoundExpired(c)
        /\ RefreshAnswered200(c)
        /\ DOMAIN RefreshPayload(c) = {"access_token", "refresh_token", "expires_in"}
        /\ Requests(c) = 1
        /\ obs[c].refreshed_at[1] < now

----------------------------------------------------------------------------
(* C2 *)

\* The operation of c holds the response to its resource request.
Received(c) == pc[c] \in {"received", "done"} /\ resp[c] # None

ResourceResponse(c) == resp[c][1]

\* C2: an operation that found the token not expired issues no refresh POST
\* and calls the session's request exactly once, with the caller's
\* parameters (get_leads: params limit and page as given); when the response
\* carries records, these are what get_leads returns.
C2_NoRefreshWhenValid ==
    \A c \in Callers :
        FoundValid(c) =>
            /\ Posts(c) = 0
            /\ Requests(c) <= 1
            /\ Ended(c) =>
                /\ Len(calls[c]) = 1
                /\ calls[c][1].fn = "request"
                /\ calls[c][1].method = frame[c].method
                /\ calls[c][1].url = [base |-> config.base_url, path |-> frame[c].path]
                /\ frame[c].op = "get_leads" =>
                       calls[c][1].kwargs = [params |-> frame[c].args]
                /\ frame[c].op = "create_contact" =>
                       calls[c][1].kwargs = [json |-> <<[name |-> frame[c].args.name]>>]
                /\ ( /\ frame[c].op = "get_leads"
                     /\ Received(c)
                     /\ ResourceResponse(c).status_code \in {200, 201}
                     /\ "_embedded" \in DOMAIN ResourceResponse(c)._payload[1]
                     /\ "leads" \in DOMAIN ResourceResponse(c)._payload[1]._embedded ) =>
                       result[c] = Return(ResourceResponse(c)._payload[1]._embedded.leads)

\* get_leads(limit=10, page=2) ended with the token valid and returned the
\* one lead of the response.
C2_Witness ==
    \E c \in Callers :
        /\ Ended(c)
        /\ FoundValid(c)
        /\ frame[c].op = "get_leads"
        /\ frame[c].args = [limit |-> 10, page |-> 2]
        /\ result[c] = Return(<<[id |-> 1, name |-> "Lead #1"]>>)

----------------------------------------------------------------------------
(* C4 *)

\* C4: when the resource response has a status >= 400 the operation raises
\* AmoCRMError carrying that status and the body text, and the resource
\* request was its last session call: no refresh follows the failure and the
\* request is not repeated.
C4_ApiErrorRaised ==
    \A c \in Callers :
        (Ended(c) /\ Received(c) /\ ResourceResponse(c).status_code >= 400) =>
            /\ result[c].kind = "raise"
            /\ result[c].exc.class = "AmoCRMError"
            /\ result[c].exc.message.status_code = obs[c].wire[1].status
            /\ result[c].exc.message.text = obs[c].wire[1].body
            /\ Requests(c) = 1
            /\ calls[c][Len(calls[c])].fn = "request"
            /\ Posts(c) = (IF FoundExpired(c) THEN 1 ELSE 0)
            /\ \A i \in CallsOf(c, "post") : i < Len(calls[c])

\* get_leads ended on a 401 "Unauthorized" answer with the token valid.
C4_Witness ==
    \E c \in Callers :
        /\ Ended(c)
        /\ FoundValid(c)
        /\ Received(c)
        /\ ResourceResponse(c).status_code = 401
        /\ ResourceResponse(c).text = "Unauthorized"
        /\ result[c].kind = "raise"

----------------------------------------------------------------------------
(* C5 *)

\* C5: when the token endpoint's response to the refresh has a status other
\* than 200, the operation that triggered the refresh raises AmoCRMError
\* carrying that status and the body text, and issues no resource request;
\* a resource request after a refresh is only ever issued after a 200.
C5_RefreshRejected ==
    \A c \in Callers :
        /\ (Ended(c) /\ obs[c].refresh_resp # None
                     /\ obs[c].refresh_resp[1].status_code # 200) =>
              /\ result[c].kind = "raise"
              /\ result[c].exc.class = "AmoCRMError"
              /\ result[c].exc.message.fmt = "Failed to refresh token: {status_code} {text}"
              /\ result[c].exc.message.status_code = obs[c].wire[1].status
              /\ result[c].exc.message.text = obs[c].wire[1].body
              /\ Requests(c) = 0
              /\ Posts(c) = 1
        /\ (FoundExpired(c) /\ Requests(c) > 0) => RefreshAnswered200(c)

\* An operation ended on a refresh answered 201 with a well-formed token
\* payload.
C5_Witness ==
    \E c \in Callers :
        /\ Ended(c)
        /\ obs[c].refresh_resp # None
        /\ obs[c].refresh_resp[1].status_code = 201
        /\ obs[c].wire[1].body = BodyTokenFull
        /\ result[c].kind = "raise"

----------------------------------------------------------------------------
(* C6 *)

\* The last thing urlopen did for c was to fail below HTTP (URLError).
NetworkFailed(c) == obs[c].wire = Some([kind |-> "urlerror"])

\* The error class the connector raises for unacceptable API responses.
ApiErrorClass == AmoCRMError("")["class"]

\* C6: a connection-level failure of the transport surfaces as an error of
\* kind NetworkError, a kind distinct from the one raised for unacceptable
\* API responses.
C6_NetworkErrorDistinct ==
    \A c \in Callers :
        (Ended(c) /\ NetworkFailed(c)) =>
            /\ result[c].kind = "raise"
            /\ result[c].exc.class = "NetworkError"
            /\ result[c].exc.class # ApiErrorClass

----------------------------------------------------------------------------
(* C7 *)

\* The contacts list of a resource response as create_contact sees it: empty
\* on a 204, and when _embedded or contacts is absent.
ContactsOf(r) ==
    IF r.status_code = 204 \/ r._payload = None
    THEN EmptyList
    ELSE IF "_embedded" \notin DOMAIN r._payload[1]
         THEN EmptyList
         ELSE IF "contacts" \notin DOMAIN r._payload[1]._embedded
              THEN EmptyList
              ELSE r._payload[1]._embedded.contacts

\* C7: create_contact(name) sends at most one request, a POST to /contacts
\* whose body is the list [{name}]; when the response has a status below
\* 400, it raises AmoCRMError "Contact creation returned empty payload" if
\* the contacts list is absent or empty (a 204 included) and otherwise
\* returns the first element of the list.
C7_CreateContact ==
    \A c \in Callers :
        frame[c].op = "create_contact" =>
            /\ Requests(c) <= 1
            /\ \A i \in CallsOf(c, "request") :
                   /\ calls[c][i].method = "POST"
                   /\ calls[c][i].url = [base |-> config.base_url, path |-> "/contacts"]
                   /\ calls[c][i].kwargs = [json |-> <<[name |-> frame[c].args.name]>>]
            /\ (Ended(c) /\ Received(c) /\ ResourceResponse(c).status_code < 400) =>
                   /\ Requests(c) = 1
                   /\ IF ContactsOf(ResourceResponse(c)) = EmptyList
                      THEN result[c] = Raise(AmoCRMError(
                               [fmt |-> "Contact creation returned empty payload"]))
                      ELSE result[c] = Return(ContactsOf(ResourceResponse(c))[1])

\* create_contact ended on a response listing two contacts.
C7_Witness ==
    \E c \in Callers :
        /\ Ended(c)
        /\ frame[c].op = "create_contact"
        /\ Received(c)
        /\ ResourceResponse(c).status_code = 200
        /\ Len(ContactsOf(ResourceResponse(c))) = 2
        /\ result[c].kind = "return"

----------------------------------------------------------------------------
(* C8 *)

\* The refresh of c's running operation replaced the held token.
Refreshed(c) == obs[c].refreshed_at # None

\* C8: the token built from a 200 refresh response has the payload's
\* access_token, the payload's refresh_token when it has one and otherwise
\* the refresh token held before, and expires at the time of the refresh
\* plus expires_in, taken as 900 when the payload has none.
C8_RefreshedToken ==
    \A c \in Callers :
        /\ Refreshed(c) =>
              LET p == RefreshPayload(c)
                  held == obs[c].pre_refresh_token[1]
                  at == obs[c].refreshed_at[1]
              IN  /\ RefreshAnswered200(c)
                  /\ token.access_token = p.access_token
                  /\ token.refresh_token =
                         (IF "refresh_token" \in DOMAIN p
                          THEN p.refresh_token ELSE held.refresh_token)
                  /\ token.expires_at =
                         at + (IF "expires_in" \in DOMAIN p THEN p.expires_in ELSE 900)
        /\ (RefreshAnswered200(c) /\ "access_token" \in DOMAIN RefreshPayload(c)) =>
              Refreshed(c)

\* A refresh was answered 200 with a payload holding only access_token.
C8_Witness ==
    \E c \in Callers :
        /\ Refreshed(c)
        /\ DOMAIN RefreshPayload(c) = {"access_token"}
        /\ token.refresh_token = "refresh_token"
        /\ obs[c].refreshed_at[1] > 0

----------------------------------------------------------------------------
(* C9 *)

\* The error the steps of c's ended operation ran into, if any.
FailedOn(c) ==
    IF NetworkFailed(c) THEN "network"
    ELSE IF obs[c].refresh_resp # None /\ obs[c].refresh_resp[1].status_code # 200
         THEN "refresh"
         ELSE IF Received(c) /\ ResourceResponse(c).status_code >= 400
              THEN "api"
              ELSE "none"

\* C9: one invocation issues at most one refresh POST and at most one
\* resource request whatever the transport does, and an operation that ran
\* into a network failure or an unacceptable response ends by raising it:
\* no operation is still running after a failure, apart from a resource
\* response it has not examined yet.
C9_NoRetries ==
    \A c \in Callers :
        /\ Posts(c) <= 1
        /\ Requests(c) <= 1
        /\ pc[c] \in {"check", "refresh", "refreshed", "send"} => FailedOn(c) = "none"
        /\ pc[c] = "received" => FailedOn(c) \in {"none", "api"}
        /\ (Ended(c) /\ FailedOn(c) # "none") =>
              /\ result[c].kind = "raise"
              /\ result[c].exc.class = "AmoCRMError"
              /\ result[c].exc.message.fmt =
                     (CASE FailedOn(c) = "network" -> "Network error: {error}"
                        [] FailedOn(c) = "refresh" ->
                               "Failed to refresh token: {status_code} {text}"
                        [] FailedOn(c) = "api" ->
                               "amoCRM API error: {status_code} {text}")

\* An operation refreshed the token and then ended on a network failure of
\* its resource request.
C9_Witness ==
    \E c \in Callers :
        /\ Ended(c)
        /\ Refreshed(c)
        /\ NetworkFailed(c)
        /\ Posts(c) = 1
        /\ Requests(c) = 1

----------------------------------------------------------------------------
(* C10 *)

\* C10: on a resource response of status 204 _request returns the empty
\* mapping without calling the response's json(); on every other status
\* below 400 it returns what json() gives, calling it once.
C10_NoContent ==
    \A c \in Callers :
        (Ended(c) /\ Received(c)) =>
            LET r == ResourceResponse(c) IN
            /\ r.status_code = 204 =>
                  /\ obs[c].data = Some(EmptyDict)
                  /\ obs[c].json_calls = 0
            /\ (r.status_code < 400 /\ r.status_code # 204) =>
                  /\ obs[c].json_calls = 1
                  /\ obs[c].data =
                         Some(IF r._payload = None THEN EmptyDict ELSE r._payload[1])

\* An operation ended on a 204 answer that came with a body.
C10_Witness ==
    \E c \in Callers :
        /\ Ended(c)
        /\ Received(c)
        /\ ResourceResponse(c).status_code = 204
        /\ ResourceResponse(c)._payload # Some(EmptyDict)
        /\ obs[c].data = Some(EmptyDict)

----------------------------------------------------------------------------
(* C11 *)

\* The leads list of a resource response as get_leads sees it: empty on a
\* 204, and when _embedded or leads is absent.
LeadsOf(r) ==
    IF r.status_code = 204 \/ r._payload = None
    THEN EmptyList
    ELSE IF "_embedded" \notin DOMAIN r._payload[1]
         THEN EmptyList
         ELSE IF "leads" \notin DOMAIN r._payload[1]._embedded
              THEN EmptyList
              ELSE r._payload[1]._embedded.leads

\* C11: on a response of status below 400 get_leads returns the list under
\* _embedded.leads when both keys are there, and returns the empty sequence,
\* raising nothing, when either key is absent (a 204 included).
C11_GetLeads ==
    \A c \in Callers :
        ( /\ Ended(c)
          /\ frame[c].op = "get_leads"
          /\ Received(c)
          /\ ResourceResponse(c).status_code < 400 ) =>
            result[c] = Return(LeadsOf(ResourceResponse(c)))

\* get_leads ended on a 200 response whose _embedded has no leads key and
\* returned the empty sequence.
C11_Witness ==
    \E c \in Callers :
        /\ Ended(c)
        /\ frame[c].op = "get_leads"
        /\ Received(c)
        /\ ResourceResponse(c).status_code = 200
        /\ ResourceResponse(c)._payload # None
        /\ "_embedded" \in DOMAIN ResourceResponse(c)._payload[1]
        /\ "leads" \notin DOMAIN ResourceResponse(c)._payload[1]._embedded
        /\ result[c] = Return(EmptyList)

----------------------------------------------------------------------------
(* C12 *)

\* Caller c's refresh is about to replace the token: it holds a 200
\* response to its POST.
ApplyingRefresh200(c) ==
    /\ pc[c] = "refreshed"
    /\ resp[c] # None
    /\ resp[c][1].status_code = 200

\* C12: no step changes the configuration, and the held token changes only
\* in a step in which some caller's refresh_access_token, holding a 200
\* response, goes on to the resource request.
C12_OnlyRefreshChangesState ==
    [][ /\ config' = config
        /\ (token' # token) =>
              \E c \in Callers : ApplyingRefresh200(c) /\ pc'[c] = "send" ]_vars

\* The configuration is the one the connector was constructed with.
C12_ConfigAsConstructed ==
    config = Connector("example", "client", "secret", "https://example.com/callback")

\* An operation has ended after its refresh replaced the token.
C12_Witness ==
    \E c \in Callers :
        /\ Ended(c)
        /\ Refreshed(c)
        /\ token # obs[c].entry_token[1]
        /\ C12_ConfigAsConstructed

----------------------------------------------------------------------------
(* C13 *)

\* The expires_in a refresh response gives the token, 900 when it has none.
GrantedLifetime(c) ==
    IF "expires_in" \in DOMAIN RefreshPayload(c)
    THEN RefreshPayload(c).expires_in
    ELSE 900

\* The instant at which c's running operation last established the state of
\* the token it sends: its refresh, or else its expiry test.
EstablishedAt(c) ==
    IF Refreshed(c) THEN obs[c].refreshed_at[1] ELSE obs[c].checked_at[1]

\* C13 as stated, with "that moment" taken as early as the operation allows
\* (the instant of its refresh, or of its expiry test): after a refresh the
\* held token is not expired, and a resource request is issued only with a
\* token that satisfies now < expires_at - 30.
C13_AsStated ==
    \A c \in Callers :
        /\ (Refreshed(c) /\ pc[c] = "send") =>
              obs[c].refreshed_at[1] < token.expires_at - 30
        /\ Requests(c) > 0 => EstablishedAt(c) < token.expires_at - 30

\* C13 (amended): a refreshed token is not expired at the instant of the
\* refresh exactly when the granted expires_in (900 when absent) exceeds
\* 30; a resource request is issued only with a token that was not expired
\* at the operation's expiry test or, after a refresh granting more than 30
\* seconds, at the instant of the refresh.
C13_ValidWhenGrantExceedsMargin ==
    \A c \in Callers :
        /\ (Refreshed(c) /\ pc[c] = "send") =>
              ((obs[c].refreshed_at[1] < token.expires_at - 30) <=> GrantedLifetime(c) > 30)
        /\ (Requests(c) > 0 /\ (Refreshed(c) => GrantedLifetime(c) > 30)) =>
              EstablishedAt(c) < token.expires_at - 30

\* A resource request was issued after a refresh granting 1800 seconds.
C13_Witness ==
    \E c \in Callers :
        /\ Refreshed(c)
        /\ GrantedLifetime(c) = 1800
        /\ Requests(c) = 1
        /\ now < token.expires_at - 30

----------------------------------------------------------------------------
(* C14 *)

\* The Authorization header value "Bearer <access_token>".
Bearer(access_token) == [scheme |-> "Bearer", credentials |-> access_token]

\* C14: every resource request carries Authorization: Bearer followed by
\* the access token held when it is issued; after a refresh in the same call
\* that is the access token of the refresh response.
C14_BearerOfHeldToken ==
    \A c \in Callers :
        \A i \in CallsOf(c, "request") :
            /\ calls[c][i].headers["Authorization"] = Bearer(token.access_token)
            /\ Refreshed(c) =>
                  calls[c][i].headers["Authorization"] =
                      Bearer(RefreshPayload(c).access_token)

\* A request went out after a refresh that replaced access token old_token.
C14_Witness ==
    \E c \in Callers :
        /\ Refreshed(c)
        /\ Requests(c) = 1
        /\ obs[c].pre_refresh_token[1].access_token = "old_token"
        /\ calls[c][Len(calls[c])].headers["Authorization"] # Bearer("old_token")

----------------------------------------------------------------------------
(* C17 *)

\* C17: the header mapping the caller passed to _request is, at every
\* moment of the call and in every outcome, as the caller passed it.
C17_CallerHeadersUntouched ==
    \A c \in Callers :
        (pc[c] # "idle" /\ obs[c].entry_headers # None) =>
            frame[c].headers = obs[c].entry_headers

----------------------------------------------------------------------------
(* C18 *)

\* The headers the caller of c's running operation supplied.
SuppliedHeaders(c) ==
    IF obs[c].entry_headers = None THEN EmptyDict ELSE obs[c].entry_headers[1]

FixedHeaderKeys == {"Authorization", "Content-Type"}

\* C18: the headers sent with a resource request are the caller's keys plus
\* Authorization and Content-Type; these two carry Bearer <access_token> and
\* application/json whatever the caller supplied under them, and every other
\* caller header is sent as supplied.
C18_FixedHeadersWin ==
    \A c \in Callers :
        \A i \in CallsOf(c, "request") :
            LET sent == calls[c][i].headers IN
            /\ DOMAIN sent = DOMAIN SuppliedHeaders(c) \cup FixedHeaderKeys
            /\ sent["Authorization"] = Bearer(token.access_token)
            /\ sent["Content-Type"] = "application/json"
            /\ \A k \in DOMAIN SuppliedHeaders(c) \ FixedHeaderKeys :
                   sent[k] = SuppliedHeaders(c)[k]

\* A request went out for a caller who supplied Authorization, Content-Type
\* and X-Trace entries.
C18_Witness ==
    \E c \in Callers :
        /\ Requests(c) = 1
        /\ FixedHeaderKeys \subseteq DOMAIN SuppliedHeaders(c)
        /\ SuppliedHeaders(c)["Content-Type"] = "text/plain"
        /\ calls[c][1].headers["X-Trace"] = "t1"

----------------------------------------------------------------------------
(* C15 *)

\* c's operation ended on a refresh attempt that did not replace the token.
RefreshFailed(c) == Ended(c) /\ Posts(c) = 1 /\ ~Refreshed(c)

\* The call c made before the running one ended as kind says.
PreviousCall(c, kind) == obs[c].prev # None /\ obs[c].prev[1].refresh = kind

\* C15: an operation whose refresh attempt failed (rejected status, network
\* failure of the POST, 200 payload without access_token) ends by raising,
\* with the token held on entry still held and no resource request issued;
\* the call that follows it finds the same token, finds it expired, and posts
\* a grant request with the same refresh token.
C15_FailedRefreshKeepsToken ==
    \A c \in Callers :
        /\ RefreshFailed(c) =>
              /\ token = obs[c].entry_token[1]
              /\ Requests(c) = 0
              /\ result[c].kind = "raise"
        /\ (PreviousCall(c, "failed") /\ pc[c] # "idle") =>
              LET left == obs[c].prev[1].token IN
              /\ obs[c].entry_token = Some(left)
              /\ pc[c] # "check" =>
                    /\ FoundExpired(c)
                    /\ obs[c].checked_token = Some(left)
                    /\ pc[c] # "refresh" => Posts(c) = 1
                    /\ \A i \in CallsOf(c, "post") :
                           calls[c][i].json.refresh_token = left.refresh_token

\* The call after a failed refresh posted again and its refresh failed on a
\* 200 payload without access_token.
C15_Witness ==
    \E c \in Callers :
        /\ PreviousCall(c, "failed")
        /\ RefreshFailed(c)
        /\ result[c].exc = KeyError("access_token")
        /\ token.access_token = "old_token"

----------------------------------------------------------------------------
(* C16 *)

\* c's operation replaced the token and then ended by raising.
FailedAfterRefresh(c) == Ended(c) /\ Refreshed(c) /\ result[c].kind = "raise"

\* C16: when the refresh succeeded and the operation then failed (status of
\* 400 or more, network failure of the request, empty contact payload) the
\* held token is the one built from the refresh response; a call that follows
\* and makes its expiry test before that token's expires_at - 30 finds it
\* valid and posts no refresh.
C16_RefreshNotRolledBack ==
    \A c \in Callers :
        /\ FailedAfterRefresh(c) =>
              LET p == RefreshPayload(c)
                  held == obs[c].pre_refresh_token[1]
              IN  token = AmoCRMToken(p.access_token,
                                      Get(p, "refresh_token", held.refresh_token),
                                      obs[c].refreshed_at[1] +
                                          Get(p, "expires_in", DefaultExpiresIn))
        /\ (PreviousCall(c, "done") /\ obs[c].prev[1].raised
               /\ pc[c] \notin {"idle", "check"}) =>
              LET left == obs[c].prev[1].token IN
              obs[c].checked_at[1] < left.expires_at - ExpiryMargin =>
                  /\ FoundValid(c)
                  /\ obs[c].checked_token = Some(left)
                  /\ Posts(c) = 0
                  /\ token = left

\* A refresh succeeded, the operation raised on an empty contact payload,
\* and the next call has issued its request with the refreshed token and no
\* post.
C16_Witness ==
    \E c \in Callers :
        /\ PreviousCall(c, "done")
        /\ obs[c].prev[1].raised
        /\ obs[c].prev[1].token.access_token = "new_access"
        /\ Ended(c)
        /\ Posts(c) = 0
        /\ Requests(c) = 1
        /\ token.access_token = "new_access"

----------------------------------------------------------------------------
(* C19 *)

\* c is between the expiry test and the end of its operation.
InSequence(c) == pc[c] \in {"check", "refresh", "refreshed", "send", "received"}

\* c and d both found the same held token expired and both posted a refresh.
TwoRefreshesForOneExpiry(c, d) ==
    /\ c # d
    /\ FoundExpired(c) /\ FoundExpired(d)
    /\ obs[c].checked_token = obs[d].checked_token
    /\ Posts(c) = 1 /\ Posts(d) = 1

\* C19 as stated, the guarded half: with the mutex around the sequence no
\* two callers post a refresh for the same expired token.
C19_AsStated ==
    lock # "absent" =>
        \A c, d \in Callers : ~TwoRefreshesForOneExpiry(c, d)

\* C19: a refresh is posted only by a caller that found the token expired;
\* two callers are inside the check-expiry, maybe-refresh, then request
\* sequence at once only on a connector without the mutex; and with the
\* mutex a second refresh for the same expired token is posted only after
\* the refresh attempt of the first caller has failed.
C19_OneRefreshUnlessFailed ==
    \A c, d \in Callers :
        /\ Posts(c) >= 1 => FoundExpired(c)
        /\ (c # d /\ InSequence(c) /\ InSequence(d)) => lock = "absent"
        /\ (lock # "absent" /\ TwoRefreshesForOneExpiry(c, d)) =>
              RefreshFailed(c) \/ RefreshFailed(d)

\* Without the mutex both callers found the one expired token expired, both
\* posted, and both refreshes replaced the token.
C19_Witness ==
    /\ lock = "absent"
    /\ TwoRefreshesForOneExpiry("A", "B")
    /\ Refreshed("A") /\ Refreshed("B")

=============================================================================
